---------------------------- MODULE Spec2Model ----------------------------
(***************************************************************************)
(* A model of the op_fonts build pipeline: the script/language resolver    *)
(* (config.py, unicode_blocks.py), the caching and retrying fetch layer    *)
(* (download.py) and the orchestrator build / build_all / dry_run          *)
(* (pipeline.py).                                                          *)
(*                                                                         *)
(* Python strings are modelled as sequences of one-character strings where *)
(* the code looks inside them (script names), and as sequences of tokens   *)
(* where the code only replaces a whole word (font file names).            *)
(***************************************************************************)
EXTENDS Integers, Sequences, FiniteSets, TLC

\* ------------------------------------------------------------------ bounds

\* Code points range over 1..MaxCp.
MaxCp == 4

\* Longest declared script name drawn for the resolver on its own.
MaxNameLen == 3

\* Longest required identifier, and most identifiers in one required set.
MaxNeededLen == 2

MaxNeeded == 2

\* ------------------------------------------------------- program constants

\* One attempt more than download.py allows.
RetriesOneMore == 3 + 1

_MAX_RETRIES == 3

None == "None"

\* ------------------------------------------------------------------ strings

Range(s) == {s[k] : k \in 1..Len(s)}

\* str.startswith
StartsWith(s, p) == Len(p) <= Len(s) /\ SubSeq(s, 1, Len(p)) = p

\* All strings over alphabet of length lo..hi.
Strings(alphabet, lo, hi) == UNION {[1..n -> alphabet] : n \in lo..hi}

S_latin == <<"l", "a", "t", "i", "n">>

S_cyrillic == <<"c", "y", "r", "i", "l", "l", "i", "c">>

S_thai == <<"t", "h", "a", "i">>

S_cjk == <<"c", "j", "k">>

S_hangul == <<"h", "a", "n", "g", "u", "l">>

S_cjk_sc == <<"c", "j", "k", "-", "s", "c">>

\* ------------------------------------------------- script/language resolver

LangCodes == {"en", "es", "fr", "pt", "pt-BR", "de", "tr", "uk", "ru", "th",
              "ko", "ja", "zh-CHS", "zh-CHT"}

LANG_TO_SCRIPTS(code) ==
    CASE code \in {"en", "es", "fr", "pt", "pt-BR", "de", "tr"} -> {S_latin}
      [] code \in {"uk", "ru"} -> {S_latin, S_cyrillic}
      [] code = "th" -> {S_latin, S_thai}
      [] code = "ko" -> {S_latin, S_cjk, S_hangul}
      [] code \in {"ja", "zh-CHS", "zh-CHT"} -> {S_latin, S_cjk}

\* scripts_for_languages giving up on the first unknown code.
scripts_for_languages_strict(lang_codes) ==
    IF Range(lang_codes) \subseteq LangCodes
    THEN UNION {LANG_TO_SCRIPTS(c) : c \in Range(lang_codes)}
    ELSE {}

\* The loop of scripts_for_languages: unknown codes are collected for a
\* warning and contribute nothing.
scripts_for_languages(lang_codes) ==
    UNION {LANG_TO_SCRIPTS(c) : c \in (Range(lang_codes) \cap LangCodes)}

\* Substring matching, which enable_scripts_for does not do.
NameMatchesSubstring(name, needed) ==
    \E k \in 1..(Len(name) + 1) :
        k + Len(needed) - 1 <= Len(name)
        /\ SubSeq(name, k, k + Len(needed) - 1) = needed

\* The generator expression inside any(...) of enable_scripts_for.
NameMatches(name, needed) ==
    name = needed \/ StartsWith(name, needed \o <<"-">>)

\* enable_scripts_for: every declared script's flag is overwritten.
enable_scripts_for(c, script_names) ==
    [c EXCEPT !.scripts =
        [k \in 1..Len(c.scripts) |->
            [c.scripts[k] EXCEPT !.enabled =
                \E needed \in script_names :
                    NameMatches(c.scripts[k].name, needed)]]]

\* _parse_script: the CJK flag is derived from the name.
IsCjk(name) ==
    \/ name \in {S_cjk, S_hangul}
    \/ StartsWith(name, S_cjk \o <<"_">>)
    \/ StartsWith(name, S_cjk \o <<"-">>)


\* ------------------------------------------------------------ configuration

\* Font file names are token sequences; "Regular" is the token build_all
\* replaces.
F_latin == <<"NotoSans-", "Regular", ".otf">>

F_cjk_sc == <<"NotoSansSC-", "Regular", ".otf">>

F_symbols == <<"NotoSansSymbols-", "Regular", ".otf">>

F_emoji == <<"NotoEmoji-", "Regular", ".otf">>

LanguagesFile == <<"languages.json">>

CharsetFile == "charsets/cjk.txt"

\* load_charset_file: the code points listed in the charset file.
load_charset_file(path) == {2, MaxCp}

\* parse_unicode_ranges: each expression is an inclusive range <<lo, hi>>
\* (a single code point is <<c, c>>); overlapping expressions collapse.
parse_unicode_ranges(ranges) ==
    UNION {ranges[k][1]..ranges[k][2] : k \in 1..Len(ranges)}

\* _resolve_codepoints, as the set of the list it returns.
_resolve_codepoints(script) ==
    IF script.charset_file # None
    THEN load_charset_file(script.charset_file)
         \cup (IF script.unicode_ranges # <<>>
               THEN parse_unicode_ranges(script.unicode_ranges)
               ELSE {})
    ELSE parse_unicode_ranges(script.unicode_ranges)

ScriptEntry(name, enabled, noto_font, noto_path, ranges, charset_file) ==
    [name |-> name, enabled |-> enabled, noto_font |-> noto_font,
     noto_path |-> noto_path, unicode_ranges |-> ranges,
     is_cjk |-> IsCjk(name), charset_file |-> charset_file, variant |-> None]

SymbolEntry == [name |-> F_symbols, path |-> "notosanssymbols", url |-> <<>>]

Sources ==
    [cdn |-> [base_url |-> "https://cdn", variant |-> "unhinted/otf"],
     cjk |-> [base_url |-> "https://cjk"]]

\* The range lists a script may declare: none, or one inclusive range.
RangeLists ==
    {<<>>} \cup UNION {{<< <<lo, hi>> >> : hi \in lo..MaxCp} : lo \in 1..MaxCp}

SymbolOptions ==
    {[enabled |-> e, fonts |-> f, unicode_ranges |-> r] :
        e \in BOOLEAN, f \in {<<>>, <<SymbolEntry>>},
        r \in {<<>>, << <<MaxCp, MaxCp>> >>}}

EmojiOptions ==
    {[enabled |-> e, font |-> F_emoji, url |-> <<>>, path |-> "notoemoji"] :
        e \in BOOLEAN}

WeightOptions == {<<>>, <<"Bold">>, <<"Bold", "Light">>}

BaseName == "OpFont"

BaseStyle == "Regular"

BaseOutput == <<BaseName, "-", "Regular", ".otf">>

BuildConfig(scripts, symbols, emoji, weights, languages_url, keep_features) ==
    [name |-> BaseName, style |-> BaseStyle, output |-> BaseOutput,
     sources |-> Sources, scripts |-> scripts, symbols |-> symbols,
     emoji |-> emoji,
     merge |-> [drop_tables |-> <<"DSIG">>, keep_features |-> keep_features],
     weights |-> weights, weight_values |-> <<>>,
     languages_url |-> languages_url]

NoSymbols == [enabled |-> FALSE, fonts |-> <<>>, unicode_ranges |-> <<>>]

NoEmoji == [enabled |-> FALSE, font |-> F_emoji, url |-> <<>>, path |-> "notoemoji"]

\* Configurations that vary what the scripts declare: any two range lists,
\* and a charset file beside a range list that is empty or a single range
\* starting at 1.
ConfigsByRanges ==
    {BuildConfig(<<ScriptEntry(S_latin, TRUE, F_latin, "notosans", r1, None),
                   ScriptEntry(S_cjk_sc, TRUE, F_cjk_sc, "Sans/SC", r2, cs)>>,
                 NoSymbols, NoEmoji, <<>>, <<>>, <<>>) :
        r1 \in RangeLists, r2 \in RangeLists, cs \in {None, CharsetFile}}
    \ {BuildConfig(<<ScriptEntry(S_latin, TRUE, F_latin, "notosans", r1, None),
                     ScriptEntry(S_cjk_sc, TRUE, F_cjk_sc, "Sans/SC", r2, CharsetFile)>>,
                   NoSymbols, NoEmoji, <<>>, <<>>, <<>>) :
        r1 \in RangeLists, r2 \in {r \in RangeLists : r # <<>> /\ r[1][1] # 1}}

\* Configurations that vary the weights and the language manifest URL.
ConfigsByWeights ==
    {BuildConfig(<<ScriptEntry(S_latin, TRUE, F_latin, "notosans", << <<1, 2>> >>, None),
                   ScriptEntry(S_cjk_sc, TRUE, F_cjk_sc, "Sans/SC", << <<2, 3>> >>, None)>>,
                 NoSymbols, NoEmoji, w, url, <<>>) :
        w \in WeightOptions, url \in {<<>>, <<"https://manifest">>}}

\* Configurations that vary the enabled flags, symbols, emoji and features.
ConfigsByOptions ==
    {BuildConfig(<<ScriptEntry(S_latin, e1, F_latin, "notosans", << <<1, 2>> >>, None),
                   ScriptEntry(S_cjk_sc, e2, F_cjk_sc, "Sans/SC", << <<2, 3>> >>, None)>>,
                 sym, emo, <<>>, <<>>, keep) :
        e1 \in BOOLEAN, e2 \in BOOLEAN, sym \in SymbolOptions,
        emo \in EmojiOptions, keep \in {<<>>, <<"kern">>}}

\* A variable font file: one file for every weight, no "Regular" in its name.
F_latin_vf == <<"NotoSans[wght]", ".ttf">>

\* Configurations that build one weight from a variable font, with and
\* without a numeric axis value for that weight (weight_values is the list
\* of the <<weight, value>> items of the dict).
ConfigsByInstancing ==
    {[BuildConfig(<<[ScriptEntry(S_latin, TRUE, F_latin_vf, "notosans", << <<1, 2>> >>, None)
                        EXCEPT !.variant = "full/variable-ttf"],
                    ScriptEntry(S_cjk_sc, TRUE, F_cjk_sc, "Sans/SC", << <<2, 3>> >>, None)>>,
                  NoSymbols, NoEmoji, <<"Bold">>, <<>>, <<>>)
        EXCEPT !.weight_values = wv] :
        wv \in {<<>>, << <<"Bold", 700>> >>}}

\* str.replace("Regular", weight) on a token sequence.
ReplaceRegular(font, weight) ==
    [k \in 1..Len(font) |-> IF font[k] = "Regular" THEN weight ELSE font[k]]

\* Every font file the configurations above can ask the cache for.
AllFontFiles ==
    {ReplaceRegular(f, w) : f \in {F_latin, F_cjk_sc}, w \in {"Regular", "Bold", "Light"}}
    \cup {F_symbols}

\* ------------------------------------------------------------- fetch layer

\* urllib.parse.quote(name, safe=""): a space is percent-encoded, the
\* unreserved characters of the tokens used here are kept.
quote(font) ==
    [k \in 1..Len(font) |-> IF font[k] = " " THEN "%20" ELSE font[k]]

_font_url(c, script) ==
    IF script.is_cjk
    THEN <<c.sources.cjk.base_url, script.noto_path, quote(script.noto_font)>>
    ELSE <<c.sources.cdn.base_url, script.noto_path,
           IF script.variant # None THEN script.variant ELSE c.sources.cdn.variant,
           quote(script.noto_font)>>

_symbol_url(c, font_name, font_path) ==
    <<c.sources.cdn.base_url, font_path, c.sources.cdn.variant, font_name>>

_emoji_url(c) ==
    IF c.emoji.url # <<>> THEN c.emoji.url
    ELSE _symbol_url(c, c.emoji.font, c.emoji.path)

\* _cache_path: the cache directory is fixed, so a path is its file name.
_cache_path(font_name) == font_name

\* A cache that is keyed by the URL as well as the name: never a hit for a
\* name alone.
ExistsKeyedByUrl(files, cached) == FALSE

\* cached.exists()
Exists(files, cached) == cached \in files

\* get_download_plan
get_download_plan(c) ==
    LET en == SelectSeq(c.scripts, LAMBDA s : s.enabled)
    IN  [k \in 1..Len(en) |->
            <<en[k].noto_font, _font_url(c, en[k]), _cache_path(en[k].noto_font)>>]
        \o (IF c.symbols.enabled
            THEN [k \in 1..Len(c.symbols.fonts) |->
                    <<c.symbols.fonts[k].name,
                      _symbol_url(c, c.symbols.fonts[k].name, c.symbols.fonts[k].path),
                      _cache_path(c.symbols.fonts[k].name)>>]
            ELSE <<>>)
        \o (IF c.emoji.enabled /\ c.emoji.font # <<>>
            THEN << <<c.emoji.font, _emoji_url(c), _cache_path(c.emoji.font)>> >>
            ELSE <<>>)


\* ------------------------------------------------------------------- state

VARIABLES
    config,       \* the BuildConfig the caller passed in
    cfg,          \* the BuildConfig build() / dry_run() works on
    mode,         \* "dry_run", "build_all", or "api" (a client of download.py)
    pc,           \* where the program is
    err,          \* the exception that ended the run, or None
    resolved,     \* result of _resolve_languages_json
    needed,       \* needed_scripts of the last _apply_languages_json
    weightIdx,    \* position of build_all's loop in config.weights
    cache,        \* files present in the cache directory
    netCount,     \* urlopen calls issued so far
    fetched,      \* the <<url, dest>> pairs urlopen was called for
    dl,           \* the running _download: url, dest, attempt, caller
    call,         \* the last ensure_* call: its arguments, whether the file
                  \* was in the cache, netCount at the call, how it ended
    enabled,      \* build(): enabled
    i,            \* build(): position of the running loop
    font_paths,   \* build(): font_paths
    symbol_paths, \* build(): symbol_paths
    work_dir,     \* build(): work_dir (0 before mkdtemp)
    subset_paths, \* build(): subset_paths
    covered_cps,  \* build(): covered_cps
    workDirs,     \* temporary directories that exist
    mkdtemps,     \* number of temporary directories created so far
    outFiles,     \* files present in the output directory
    wrote,        \* output files the running build() has written
    requested,    \* script name -> code points handed to subset_font
    cmaps,        \* script name -> character map of its subset file
    mergeArg,     \* << the list build() passed to merge_fonts >>, or << >>
    stages,       \* the stages the running build() has entered, in order
    report,       \* << what dry_run printed >>, or << >>
    data,         \* what json.load returned in the last _apply_languages_json
    srcs,         \* script name -> the file handed to subset_font as source
    workers       \* the builds that run side by side: where each one is in
                  \* ensure_font / _download

vars ==
    <<config, cfg, mode, pc, err, resolved, needed, weightIdx, cache, netCount,
      fetched, dl, call, enabled, i, font_paths, symbol_paths, work_dir,
      subset_paths, covered_cps, workDirs, mkdtemps, outFiles, wrote,
      requested, cmaps, mergeArg, stages, report, data, srcs, workers>>

netVars == <<cache, netCount, fetched, dl, call>>

buildVars ==
    <<enabled, i, font_paths, symbol_paths, work_dir, subset_paths,
      covered_cps, requested, cmaps, mergeArg>>

fsVars == <<workDirs, mkdtemps, outFiles, wrote>>

NoCall == [fn |-> None, name |-> <<>>, url |-> <<>>, hit |-> FALSE,
           net0 |-> 0, status |-> None]

NoDl == [url |-> <<>>, dest |-> <<>>, attempt |-> 0, caller |-> None]

NoData == [shape |-> None, content |-> <<>>]

InitCommon ==
    /\ cfg = config
    /\ err = None
    /\ resolved = None
    /\ needed = {}
    /\ weightIdx = 0
    /\ netCount = 0
    /\ fetched = {}
    /\ dl = NoDl
    /\ call = NoCall
    /\ enabled = <<>>
    /\ i = 0
    /\ font_paths = <<>>
    /\ symbol_paths = <<>>
    /\ work_dir = 0
    /\ subset_paths = <<>>
    /\ covered_cps = {}
    /\ workDirs = {}
    /\ mkdtemps = 0
    /\ outFiles = {}
    /\ wrote = {}
    /\ requested = <<>>
    /\ cmaps = <<>>
    /\ mergeArg = <<>>
    /\ stages = <<>>
    /\ report = <<>>
    /\ data = NoData
    /\ srcs = <<>>

\* The cache directory at the start: empty, holding the regular fonts, or
\* holding every font and the language manifest.
InitCaches ==
    {{}, {F_latin, F_cjk_sc}, AllFontFiles \cup {LanguagesFile}}

Init ==
    /\ \/ config \in ConfigsByRanges /\ cache = AllFontFiles \cup {LanguagesFile}
       \/ config \in ConfigsByWeights /\ cache \in InitCaches
       \/ config \in ConfigsByOptions /\ cache = AllFontFiles \cup {LanguagesFile}
    /\ mode = None
    /\ pc = "start"
    /\ workers = <<>>
    /\ InitCommon

\* ----------------------------------------------------------------- helpers

Raise(exc) == pc' = "aborted" /\ err' = exc

\* build() with the merge moved before the "all subsets empty" check.
NextStageMergeBeforeCheck(stage, c) ==
    CASE stage = "validate" -> "fetch"
      [] stage = "fetch" -> "fetch_symbols"
      [] stage = "fetch_symbols" -> "mkdtemp"
      [] stage = "mkdtemp" -> "subset"
      [] stage = "subset" -> "subset_symbols"
      [] stage = "subset_symbols" -> "merge"
      [] stage = "merge" -> "check"
      [] stage = "check" ->
            IF c.merge.keep_features # <<>> THEN "prune" ELSE "rename"
      [] stage = "prune" -> "rename"
      [] stage = "rename" -> "fix_metrics"
      [] stage = "fix_metrics" -> "subroutinize"
      [] stage = "subroutinize" -> "cleanup"

\* build() pruning features whether or not a keep list is configured.
NextStagePruneAlways(stage, c) ==
    CASE stage = "validate" -> "fetch"
      [] stage = "fetch" -> "fetch_symbols"
      [] stage = "fetch_symbols" -> "mkdtemp"
      [] stage = "mkdtemp" -> "subset"
      [] stage = "subset" -> "subset_symbols"
      [] stage = "subset_symbols" -> "check"
      [] stage = "check" -> "merge"
      [] stage = "merge" -> "prune"
      [] stage = "prune" -> "rename"
      [] stage = "rename" -> "fix_metrics"
      [] stage = "fix_metrics" -> "subroutinize"
      [] stage = "subroutinize" -> "cleanup"

\* The statement order of build(): the stage that follows each stage.
NextStage(stage, c) ==
    CASE stage = "validate" -> "fetch"
      [] stage = "fetch" -> "fetch_symbols"
      [] stage = "fetch_symbols" -> "mkdtemp"
      [] stage = "mkdtemp" -> "subset"
      [] stage = "subset" -> "subset_symbols"
      [] stage = "subset_symbols" -> "check"
      [] stage = "check" -> "merge"
      [] stage = "merge" ->
            IF c.merge.keep_features # <<>> THEN "prune" ELSE "rename"
      [] stage = "prune" -> "rename"
      [] stage = "rename" -> "fix_metrics"
      [] stage = "fix_metrics" -> "subroutinize"
      [] stage = "subroutinize" -> "cleanup"

\* Entering a stage: the program counter and the record of stages entered.
Goto(stage) == pc' = stage /\ stages' = Append(stages, stage)

Put(f, k, v) == [x \in (DOMAIN f) \cup {k} |-> IF x = k THEN v ELSE f[x]]


\* --------------------------------------------- language manifest resolution

\* _resolve_languages_json, with _fetch_languages_json up to its _download.
ResolveLanguagesJson(languages_json) ==
    IF languages_json
    THEN resolved' = "local" /\ pc' = "resolved" /\ dl' = dl
    ELSE IF config.languages_url # <<>>
         THEN IF Exists(cache, LanguagesFile)
              THEN resolved' = "cached" /\ pc' = "resolved" /\ dl' = dl
              ELSE /\ dl' = [url |-> config.languages_url, dest |-> LanguagesFile,
                             attempt |-> 1, caller |-> "_fetch_languages_json"]
                   /\ pc' = "download"
                   /\ resolved' = resolved
         ELSE resolved' = None /\ pc' = "resolved" /\ dl' = dl

\* The languages_json argument a caller passes: a local manifest file or
\* nothing; the configurations that vary the ranges are run without one.
LanguagesJsonArgs(c) == IF c \in ConfigsByRanges THEN {FALSE} ELSE BOOLEAN

\* dry_run(config, languages_json), line 84.
DryRun ==
    /\ pc = "start"
    /\ mode' = "dry_run"
    /\ \E languages_json \in LanguagesJsonArgs(config) :
        ResolveLanguagesJson(languages_json)
    /\ UNCHANGED <<config, cfg, err, needed, weightIdx, cache, netCount, fetched,
                   call, stages, report, data, srcs, workers>>
    /\ UNCHANGED <<buildVars, fsVars>>

\* build_all(config, languages_json), line 368.
BuildAll ==
    /\ pc = "start"
    /\ mode' = "build_all"
    /\ \E languages_json \in LanguagesJsonArgs(config) :
        ResolveLanguagesJson(languages_json)
    /\ UNCHANGED <<config, cfg, err, needed, weightIdx, cache, netCount, fetched,
                   call, stages, report, data, srcs, workers>>
    /\ UNCHANGED <<buildVars, fsVars>>

\* The language code lists a manifest may carry; "xx" is in no table.
CodeLists == {<<>>, <<"en">>, <<"ja">>, <<"xx">>, <<"en", "xx">>}

\* The display names a mapping uses as keys, by position.
DisplayNames == <<"First", "Second">>

\* What json.load can return for a manifest file: a mapping of display names
\* to codes, a list of codes, or something else.
Manifests ==
    {[shape |-> "dict", content |-> [k \in 1..Len(cs) |-> <<DisplayNames[k], cs[k]>>]] :
        cs \in CodeLists}
    \cup {[shape |-> "list", content |-> cs] : cs \in CodeLists}
    \cup {[shape |-> "str", content |-> <<>>]}

\* list(data.keys()) in place of list(data.values()).
lang_codes_of_keys(d) ==
    IF d.shape = "dict"
    THEN [k \in 1..Len(d.content) |-> d.content[k][1]]
    ELSE d.content

\* Lines 42-45: list(data.values()) of a mapping, the list itself otherwise.
lang_codes_of(d) ==
    IF d.shape = "dict"
    THEN [k \in 1..Len(d.content) |-> d.content[k][2]]
    ELSE d.content

\* Where control goes once the manifest has been applied or skipped.
AfterLanguages(m, c) ==
    IF m = "dry_run" THEN "report"
    ELSE IF c.weights = <<>> THEN "validate" ELSE "next_weight"

\* _apply_languages_json on the caller's config.
ApplyLanguagesJson ==
    /\ pc = "resolved"
    /\ resolved # None
    /\ \E d \in Manifests :
        /\ data' = d
        /\ IF d.shape \notin {"dict", "list"}
           THEN /\ Raise("ValueError")
                /\ UNCHANGED <<config, cfg, needed>>
           ELSE /\ needed' = scripts_for_languages(lang_codes_of(d))
                /\ config' = enable_scripts_for(config, needed')
                /\ cfg' = config'
                /\ pc' = AfterLanguages(mode, config)
                /\ err' = err
    /\ UNCHANGED <<mode, resolved, weightIdx, stages, report, srcs, workers>>
    /\ UNCHANGED <<netVars, buildVars, fsVars>>

\* No manifest: `if resolved:` / `if languages_json:` is false.
SkipLanguages ==
    /\ pc = "resolved"
    /\ resolved = None
    /\ pc' = AfterLanguages(mode, config)
    /\ UNCHANGED <<config, cfg, mode, err, resolved, needed, weightIdx, stages, report, data, srcs, workers>>
    /\ UNCHANGED <<netVars, buildVars, fsVars>>

\* ------------------------------------------------------------- fetch layer

\* ensure_font / ensure_symbol_font / ensure_url_font up to the call of
\* _download: a cache hit returns, a miss starts a download.
Ensure(fn, font_name, url, caller) ==
    LET cached == _cache_path(font_name)
    IN  /\ call' = [fn |-> fn, name |-> font_name, url |-> url,
                    hit |-> font_name \in cache, net0 |-> netCount,
                    status |-> IF Exists(cache, cached) THEN "returned" ELSE "running"]
        /\ dl' = IF Exists(cache, cached) THEN dl
                 ELSE [url |-> url, dest |-> cached, attempt |-> 1, caller |-> caller]
        /\ UNCHANGED <<cache, netCount, fetched>>

\* build(): the loop body of lines 139-140 once ensure_font has returned.
FontFetched(path) ==
    /\ font_paths' = Put(font_paths, enabled[i].name, path)
    /\ IF i < Len(enabled)
       THEN i' = i + 1 /\ pc' = "fetch" /\ stages' = stages
       ELSE i' = 0 /\ Goto(NextStage("fetch", cfg))

\* _download: one attempt of the loop succeeds.
DownloadSucceeds ==
    /\ pc = "download"
    /\ netCount' = netCount + 1
    /\ fetched' = fetched \cup {<<dl.url, dl.dest>>}
    /\ cache' = cache \cup {dl.dest}
    /\ dl' = NoDl
    /\ CASE dl.caller = "_fetch_languages_json" ->
              /\ resolved' = "cached"
              /\ pc' = "resolved"
              /\ UNCHANGED <<call, i, font_paths, stages>>
         [] dl.caller = "build" ->
              /\ call' = [call EXCEPT !.status = "returned"]
              /\ FontFetched(dl.dest)
              /\ resolved' = resolved
         [] dl.caller = "api" ->
              /\ call' = [call EXCEPT !.status = "returned"]
              /\ pc' = "api"
              /\ UNCHANGED <<resolved, i, font_paths, stages>>
    /\ UNCHANGED <<config, cfg, mode, err, needed, weightIdx, report, data, srcs, workers>>
    /\ UNCHANGED <<enabled, symbol_paths, work_dir, subset_paths, covered_cps,
                   requested, cmaps, mergeArg>>
    /\ UNCHANGED fsVars

\* _download: one attempt fails with HTTPError, URLError or OSError.
DownloadFails ==
    /\ pc = "download"
    /\ netCount' = netCount + 1
    /\ fetched' = fetched \cup {<<dl.url, dl.dest>>}
    /\ IF dl.attempt = _MAX_RETRIES
       THEN /\ Raise("RuntimeError: download")
            /\ dl' = NoDl
            /\ call' = IF dl.caller = "_fetch_languages_json" THEN call
                       ELSE [call EXCEPT !.status = "raised"]
       ELSE /\ dl' = [dl EXCEPT !.attempt = @ + 1]
            /\ UNCHANGED <<pc, err, call>>
    /\ UNCHANGED <<config, cfg, mode, resolved, needed, weightIdx, cache, stages, report, data, srcs, workers>>
    /\ UNCHANGED <<buildVars, fsVars>>

\* The calls a client of download.py makes.
ApiNames == {F_latin, F_symbols}

ApiUrls == {<<"https://a">>, <<"https://b">>}

ApiEnsureFont ==
    /\ pc = "api"
    /\ \E k \in 1..Len(config.scripts) :
        /\ Ensure("ensure_font", config.scripts[k].noto_font,
                  _font_url(config, config.scripts[k]), "api")
        /\ pc' = IF Exists(cache, _cache_path(config.scripts[k].noto_font))
                 THEN "api" ELSE "download"
    /\ UNCHANGED <<config, cfg, mode, err, resolved, needed, weightIdx, stages, report, data, srcs, workers>>
    /\ UNCHANGED <<buildVars, fsVars>>

ApiEnsureSymbolFont ==
    /\ pc = "api"
    /\ \E font_name \in ApiNames, font_path \in {"notosanssymbols"} :
        /\ Ensure("ensure_symbol_font", font_name,
                  _symbol_url(config, font_name, font_path), "api")
        /\ pc' = IF Exists(cache, _cache_path(font_name)) THEN "api" ELSE "download"
    /\ UNCHANGED <<config, cfg, mode, err, resolved, needed, weightIdx, stages, report, data, srcs, workers>>
    /\ UNCHANGED <<buildVars, fsVars>>

ApiEnsureUrlFont ==
    /\ pc = "api"
    /\ \E font_name \in ApiNames, url \in ApiUrls :
        /\ Ensure("ensure_url_font", font_name, url, "api")
        /\ pc' = IF Exists(cache, _cache_path(font_name)) THEN "api" ELSE "download"
    /\ UNCHANGED <<config, cfg, mode, err, resolved, needed, weightIdx, stages, report, data, srcs, workers>>
    /\ UNCHANGED <<buildVars, fsVars>>


\* ------------------------------------------------------------------ build()

\* A covered set kept from the build before.
CarriedCovered(previous) == previous

\* build(), line 151: covered_cps = set(), a local of this invocation.
FreshCovered(previous) == {}

\* Line 167 left out.
CoveredAfterNothing(covered, cmap, codepoints) == covered

\* The enabled list without the test of the flag.
EnabledScriptsUnfiltered(c) == c.scripts

\* build(), line 130: enabled = [s for s in config.scripts if s.enabled].
EnabledScripts(c) == SelectSeq(c.scripts, LAMBDA s : s.enabled)

\* build(), lines 130-134: the enabled list, or "nothing to build".
Validate ==
    /\ pc = "validate"
    /\ LET en == EnabledScripts(cfg)
       IN  /\ enabled' = en
           /\ IF en = <<>>
              THEN /\ Raise("RuntimeError: no scripts enabled")
                   /\ stages' = <<"validate">>
                   /\ i' = 0
              ELSE /\ pc' = NextStage("validate", cfg)
                   /\ stages' = <<"validate", NextStage("validate", cfg)>>
                   /\ i' = 1
                   /\ err' = err
    /\ font_paths' = <<>>
    /\ symbol_paths' = <<>>
    /\ work_dir' = 0
    /\ subset_paths' = <<>>
    /\ covered_cps' = FreshCovered(covered_cps)
    /\ requested' = <<>>
    /\ cmaps' = <<>>
    /\ mergeArg' = <<>>
    /\ wrote' = {}
    /\ srcs' = <<>>
    /\ UNCHANGED <<config, cfg, mode, resolved, needed, weightIdx, report, data, workers>>
    /\ UNCHANGED <<netVars, workDirs, mkdtemps, outFiles>>

\* build(), lines 139-140: ensure_font for the next enabled script.
EnsureFont ==
    /\ pc = "fetch"
    /\ LET script == enabled[i]
       IN  /\ Ensure("ensure_font", script.noto_font, _font_url(cfg, script), "build")
           /\ IF Exists(cache, _cache_path(script.noto_font))
              THEN FontFetched(_cache_path(script.noto_font))
              ELSE pc' = "download" /\ UNCHANGED <<i, font_paths, stages>>
    /\ UNCHANGED <<config, cfg, mode, err, resolved, needed, weightIdx, report, data, srcs, workers>>
    /\ UNCHANGED <<enabled, symbol_paths, work_dir, subset_paths, covered_cps,
                   requested, cmaps, mergeArg>>
    /\ UNCHANGED fsVars

\* build(), lines 142-145: ensure_symbol_font is declared with three
\* parameters (download.py line 68) and called with four, so the first
\* iteration of the loop raises TypeError.
FetchSymbols ==
    /\ pc = "fetch_symbols"
    /\ IF cfg.symbols.enabled /\ cfg.symbols.fonts # <<>>
       THEN Raise("TypeError") /\ stages' = stages
       ELSE Goto(NextStage("fetch_symbols", cfg)) /\ err' = err
    /\ symbol_paths' = <<>>
    /\ UNCHANGED <<config, cfg, mode, resolved, needed, weightIdx, report, data, srcs, workers>>
    /\ UNCHANGED <<enabled, i, font_paths, work_dir, subset_paths, covered_cps,
                   requested, cmaps, mergeArg>>
    /\ UNCHANGED <<netVars, fsVars>>

\* build(), lines 149-151: tempfile.mkdtemp and the empty accumulators.
Mkdtemp ==
    /\ pc = "mkdtemp"
    /\ mkdtemps' = mkdtemps + 1
    /\ work_dir' = mkdtemps + 1
    /\ workDirs' = workDirs \cup {mkdtemps + 1}
    /\ subset_paths' = <<>>
    /\ covered_cps' = FreshCovered(covered_cps)
    /\ i' = 1
    /\ Goto(NextStage("mkdtemp", cfg))
    /\ UNCHANGED <<config, cfg, mode, err, resolved, needed, weightIdx, report, data, srcs, workers>>
    /\ UNCHANGED <<enabled, font_paths, symbol_paths, requested, cmaps, mergeArg>>
    /\ UNCHANGED <<netVars, outFiles, wrote>>

\* subset_font: the subset holds the requested code points the source font
\* has glyphs for.
subset_font(glyphs, codepoints) == codepoints \cap glyphs

\* Lines 157-158 without the filter.
FilterCoveredNot(codepoints, covered) == codepoints

\* Lines 157-158: drop the code points already covered.
FilterCovered(codepoints, covered) ==
    IF covered # {}
    THEN {cp \in codepoints : cp \notin covered}
    ELSE codepoints

\* Line 167 updating from the requested code points.
CoveredAfterRequested(covered, cmap, codepoints) == covered \cup codepoints

\* Line 167: covered_cps.update(font.getBestCmap().keys()).
CoveredAfter(covered, cmap, codepoints) == covered \cup cmap

SubsetPath(dir, kind, name) == [dir |-> dir, kind |-> kind, name |-> name]

\* Line 159 never taking the branch.
SkippedNever(codepoints) == FALSE

\* Line 159: `if not codepoints`.
Skipped(codepoints) == codepoints = {}

\* An except clause that catches nothing.
CaughtNothing(exc) == FALSE

\* Line 170: `except ValueError`.
Caught(exc) == exc = "ValueError"

\* The new subset file put in front of the list.
PrependSubset(paths, out) == <<out>> \o paths

\* Line 169: subset_paths.append(out).
AppendSubset(paths, out) == Append(paths, out)

\* build(), lines 153-171: one iteration of the script loop. subset_font
\* raises ValueError when the subset would be empty.
SubsetScript ==
    /\ pc = "subset"
    /\ \E glyphs \in SUBSET (1..MaxCp) :
        LET script == enabled[i]
            src == font_paths[script.name]
            out == SubsetPath(work_dir, "script", script.name)
            codepoints == FilterCovered(_resolve_codepoints(script), covered_cps)
            cmap == subset_font(glyphs, codepoints)
            uncaught == ~Skipped(codepoints) /\ cmap = {} /\ ~Caught("ValueError")
        IN  /\ IF Skipped(codepoints)
               THEN UNCHANGED <<subset_paths, covered_cps, requested, cmaps, srcs>>
               ELSE /\ requested' = Put(requested, script.name, codepoints)
                    /\ srcs' = Put(srcs, script.name, src)
                    /\ IF cmap = {}
                       THEN UNCHANGED <<subset_paths, covered_cps, cmaps>>
                       ELSE /\ covered_cps' = CoveredAfter(covered_cps, cmap, codepoints)
                            /\ subset_paths' = AppendSubset(subset_paths, out)
                            /\ cmaps' = Put(cmaps, script.name, cmap)
            /\ IF uncaught
               THEN Raise("ValueError: subset_font") /\ UNCHANGED <<i, stages>>
               ELSE /\ err' = err
                    /\ IF i < Len(enabled)
                       THEN i' = i + 1 /\ UNCHANGED <<pc, stages>>
                       ELSE i' = 0 /\ Goto(NextStage("subset", cfg))
    /\ UNCHANGED <<config, cfg, mode, resolved, needed, weightIdx, report,
                   data, workers>>
    /\ UNCHANGED <<enabled, font_paths, symbol_paths, work_dir, mergeArg>>
    /\ UNCHANGED <<netVars, fsVars>>

\* The symbol subsets of lines 176-182, given which subset_font calls succeed.
SymbolSubsets(paths, ok, dir) ==
    LET all == [k \in 1..Len(paths) |-> <<k, SubsetPath(dir, "symbols", paths[k])>>]
        sel == SelectSeq(all, LAMBDA e : ok[e[1]])
    IN  [k \in 1..Len(sel) |-> sel[k][2]]

\* build(), lines 174-182: the symbol loop.
SubsetSymbols ==
    /\ pc = "subset_symbols"
    /\ IF cfg.symbols.enabled /\ cfg.symbols.unicode_ranges # <<>>
       THEN \E ok \in [1..Len(symbol_paths) -> BOOLEAN] :
                subset_paths' = subset_paths \o SymbolSubsets(symbol_paths, ok, work_dir)
       ELSE subset_paths' = subset_paths
    /\ Goto(NextStage("subset_symbols", cfg))
    /\ UNCHANGED <<config, cfg, mode, err, resolved, needed, weightIdx, report, data, srcs, workers>>
    /\ UNCHANGED <<enabled, i, font_paths, symbol_paths, work_dir, covered_cps,
                   requested, cmaps, mergeArg>>
    /\ UNCHANGED <<netVars, fsVars>>

\* build(), lines 184-185.
CheckSubsets ==
    /\ pc = "check"
    /\ IF subset_paths = <<>>
       THEN Raise("RuntimeError: all subsets empty") /\ stages' = stages
       ELSE Goto(NextStage("check", cfg)) /\ err' = err
    /\ UNCHANGED <<config, cfg, mode, resolved, needed, weightIdx, report, data, srcs, workers>>
    /\ UNCHANGED <<netVars, buildVars, fsVars>>

\* build(), lines 189-192: merge_fonts writes the output file; when it
\* raises it may or may not have written it.
Merge ==
    /\ pc = "merge"
    /\ mergeArg' = <<subset_paths>>
    /\ \E ok \in BOOLEAN, written \in BOOLEAN :
        /\ ok => written
        /\ outFiles' = IF written THEN outFiles \cup {cfg.output} ELSE outFiles
        /\ wrote' = IF written THEN wrote \cup {cfg.output} ELSE wrote
        /\ IF ok
           THEN Goto(NextStage("merge", cfg)) /\ err' = err
           ELSE Raise("merge_fonts failed") /\ stages' = stages
    /\ UNCHANGED <<config, cfg, mode, resolved, needed, weightIdx, report, data, srcs, workers>>
    /\ UNCHANGED <<enabled, i, font_paths, symbol_paths, work_dir, subset_paths,
                   covered_cps, requested, cmaps>>
    /\ UNCHANGED <<netVars, workDirs, mkdtemps>>

\* A stage that rewrites the output file in place, or raises.
RewriteOutput(stage, exc) ==
    /\ pc = stage
    /\ \E ok \in BOOLEAN :
        IF ok
        THEN Goto(NextStage(stage, cfg)) /\ err' = err
        ELSE Raise(exc) /\ stages' = stages
    /\ UNCHANGED <<config, cfg, mode, resolved, needed, weightIdx, report, data, srcs, workers>>
    /\ UNCHANGED <<netVars, buildVars, fsVars>>

\* build(), lines 195-196.
PruneFeatures == RewriteOutput("prune", "_prune_features failed")

\* build(), line 200.
RenameFont == RewriteOutput("rename", "rename_font failed")

\* build(), line 201.
FixMetrics == RewriteOutput("fix_metrics", "_fix_metrics failed")

\* build(), line 202.
Subroutinize == RewriteOutput("subroutinize", "_subroutinize failed")

\* build(), lines 205-214: shutil.rmtree(work_dir) and the return.
Cleanup ==
    /\ pc = "cleanup"
    /\ workDirs' = workDirs \ {work_dir}
    /\ pc' = IF config.weights = <<>> THEN "done" ELSE "next_weight"
    /\ UNCHANGED <<config, cfg, mode, err, resolved, needed, weightIdx, stages, report, data, srcs, workers>>
    /\ UNCHANGED <<netVars, buildVars, mkdtemps, outFiles, wrote>>

\* ---------------------------------------------------------------- build_all

\* Lines 381-385: the mutations of the per-weight configuration.
WeightConfig(c, weight) ==
    [c EXCEPT !.style = weight,
              !.output = <<c.name, "-", weight, ".otf">>,
              !.scripts = [k \in 1..Len(c.scripts) |->
                              [c.scripts[k] EXCEPT
                                  !.noto_font = ReplaceRegular(@, weight)]]]

\* `cfg = config`: the mutations land in the caller's configuration.
ConfigAfterWeightAliased(base, mutated) == mutated

\* Line 380, cfg = copy.deepcopy(config): what the mutations of cfg leave
\* in config.
ConfigAfterWeight(base, mutated) == base

\* build_all(), lines 378-387: the next weight, or the return.
NextWeight ==
    /\ pc = "next_weight"
    /\ IF weightIdx < Len(config.weights)
       THEN /\ weightIdx' = weightIdx + 1
            /\ cfg' = WeightConfig(config, config.weights[weightIdx + 1])
            /\ config' = ConfigAfterWeight(config, cfg')
            /\ pc' = "validate"
       ELSE /\ pc' = "done"
            /\ UNCHANGED <<weightIdx, cfg, config>>
    /\ UNCHANGED <<mode, err, resolved, needed, stages, report, data, srcs, workers>>
    /\ UNCHANGED <<netVars, buildVars, fsVars>>

\* ------------------------------------------------------------------ dry_run

\* dry_run(), lines 111-116: the merge order it prints.
DryRunMergeOrder(c) ==
    LET en == SelectSeq(c.scripts, LAMBDA s : s.enabled)
    IN  [k \in 1..Len(en) |-> <<"script", en[k].name>>]
        \o (IF c.symbols.enabled
            THEN [k \in 1..Len(c.symbols.fonts) |-> <<"symbols", c.symbols.fonts[k].name>>]
            ELSE <<>>)

\* dry_run(), lines 88-119: everything it prints.
DryRunReport ==
    /\ pc = "report"
    /\ LET en == SelectSeq(cfg.scripts, LAMBDA s : s.enabled)
           plan == get_download_plan(cfg)
       IN  report' =
            << [enabled |-> [k \in 1..Len(en) |-> en[k].name],
                counts |-> [k \in 1..Len(en) |-> Cardinality(_resolve_codepoints(en[k]))],
                plan |-> [k \in 1..Len(plan) |->
                            <<plan[k][1], plan[k][2],
                              IF Exists(cache, plan[k][3]) THEN "cached" ELSE "download">>],
                merge_order |-> DryRunMergeOrder(cfg)] >>
    /\ pc' = "done"
    /\ UNCHANGED <<config, cfg, mode, err, resolved, needed, weightIdx, stages,
                   data, srcs, workers>>
    /\ UNCHANGED <<netVars, buildVars, fsVars>>

\* ----------------------------------------------------------- specifications

Next ==
    \/ DryRun
    \/ BuildAll
    \/ ApplyLanguagesJson
    \/ SkipLanguages
    \/ DownloadSucceeds
    \/ DownloadFails
    \/ Validate
    \/ EnsureFont
    \/ FetchSymbols
    \/ Mkdtemp
    \/ SubsetScript
    \/ SubsetSymbols
    \/ CheckSubsets
    \/ Merge
    \/ PruneFeatures
    \/ RenameFont
    \/ FixMetrics
    \/ Subroutinize
    \/ Cleanup
    \/ NextWeight
    \/ DryRunReport

Spec == Init /\ [][Next]_vars


\* The pipeline started on the configurations above and on those that
\* build a weight from a variable font.
InitInstancing ==
    \/ Init
    \/ /\ config \in ConfigsByInstancing
       /\ cache \in {{}, AllFontFiles \cup {F_latin_vf}}
       /\ mode = None
       /\ pc = "start"
       /\ workers = <<>>
       /\ InitCommon

SpecInstancing == InitInstancing /\ [][Next]_vars

\* The fetch layer on its own: a client calls ensure_font, ensure_symbol_font
\* and ensure_url_font on a cache directory that holds any of the fonts.
InitFetch ==
    /\ config \in {c \in ConfigsByWeights : c.weights = <<>> /\ c.languages_url = <<>>}
    /\ cache \in SUBSET {F_latin, F_cjk_sc, F_symbols}
    /\ mode = "api"
    /\ pc = "api"
    /\ workers = <<>>
    /\ InitCommon

NextFetch ==
    \/ ApiEnsureFont
    \/ ApiEnsureSymbolFont
    \/ ApiEnsureUrlFont
    \/ DownloadSucceeds
    \/ DownloadFails

SpecFetch == InitFetch /\ [][NextFetch]_vars

\* The resolver on its own: enable_scripts_for applied to declared scripts of
\* any name and any previous flag, for any required set.
Alphabet == {"a", "-"}

NeededSets ==
    {{}} \cup {Range(q) : q \in [1..MaxNeeded -> Strings(Alphabet, 0, MaxNeededLen)]}

InitEnable ==
    /\ config \in
        {BuildConfig(<<ScriptEntry(n1, e1, F_latin, "notosans", <<>>, None),
                       ScriptEntry(n2, e2, F_cjk_sc, "Sans/SC", <<>>, None)>>,
                     NoSymbols, NoEmoji, <<>>, <<>>, <<>>) :
            n1 \in Strings(Alphabet, 1, MaxNameLen),
            n2 \in Strings(Alphabet, 1, 1),
            e1 \in BOOLEAN, e2 \in BOOLEAN}
    /\ cache = {}
    /\ mode = "enable"
    /\ pc = "enable"
    /\ workers = <<>>
    /\ InitCommon

\* enable_scripts_for(config, script_names)
EnableScriptsFor ==
    /\ pc = "enable"
    /\ \E script_names \in NeededSets :
        /\ needed' = script_names
        /\ config' = enable_scripts_for(config, script_names)
    /\ cfg' = config'
    /\ pc' = "enabled"
    /\ UNCHANGED <<mode, err, resolved, weightIdx, stages, report, data, srcs, workers>>
    /\ UNCHANGED <<netVars, buildVars, fsVars>>

NextEnable == EnableScriptsFor

SpecEnable == InitEnable /\ [][NextEnable]_vars


\* ------------------------------------------- builds running side by side
\* Two builds (spec section 5: weight builds may run in parallel) call
\* ensure_font on the same cache directory; the statements of ensure_font,
\* _download and Path.write_bytes of the two interleave.

Builds == {1, 2}

\* A build about to call ensure_font(config, script).
Worker(script) ==
    [at |-> "ensure_font", script |-> script, name |-> script.noto_font,
     attempt |-> 0, downloads |-> 0, writes |-> 0, saw_partial |-> FALSE]

\* A cache file another build has opened for writing and not finished.
BeingWritten(name, p) ==
    \E q \in Builds \ {p} : workers[q].at = "write_bytes" /\ workers[q].name = name

InitRace ==
    /\ config \in {c \in ConfigsByWeights : c.weights = <<>> /\ c.languages_url = <<>>}
    /\ cache \in SUBSET {F_latin, F_cjk_sc}
    /\ mode = "race"
    /\ pc = "race"
    /\ workers \in [Builds -> {Worker(config.scripts[k]) :
                                   k \in 1..Len(config.scripts)}]
    /\ InitCommon

RaceUnchanged ==
    /\ UNCHANGED <<config, cfg, mode, pc, err, resolved, needed, weightIdx, dl,
                   call, stages, report, data, srcs>>
    /\ UNCHANGED <<buildVars, fsVars>>

\* ensure_font, lines 59-64: cached.exists(), then return or _download.
WorkerExists(p) ==
    /\ workers[p].at = "ensure_font"
    /\ IF Exists(cache, _cache_path(workers[p].name))
       THEN workers' = [workers EXCEPT ![p].at = "returned",
                           ![p].saw_partial = BeingWritten(workers[p].name, p)]
       ELSE workers' = [workers EXCEPT ![p].at = "urlopen", ![p].attempt = 1,
                           ![p].downloads = 1]
    /\ UNCHANGED <<cache, netCount, fetched>>
    /\ RaceUnchanged

\* _download, lines 27-28: urlopen and resp.read() return the body.
WorkerReads(p) ==
    /\ workers[p].at = "urlopen"
    /\ netCount' = netCount + 1
    /\ fetched' = fetched \cup {<<_font_url(config, workers[p].script),
                               _cache_path(workers[p].name)>>}
    /\ workers' = [workers EXCEPT ![p].at = "open"]
    /\ cache' = cache
    /\ RaceUnchanged

\* _download, lines 33-37: the attempt raises.
WorkerAttemptFails(p) ==
    /\ workers[p].at = "urlopen"
    /\ netCount' = netCount + 1
    /\ workers' = IF workers[p].attempt = _MAX_RETRIES
                  THEN [workers EXCEPT ![p].at = "raised"]
                  ELSE [workers EXCEPT ![p].attempt = @ + 1]
    /\ UNCHANGED <<cache, fetched>>
    /\ RaceUnchanged

\* _download, line 30: dest.write_bytes(data) opens dest for writing, which
\* creates the file before any byte is in it.
WorkerOpens(p) ==
    /\ workers[p].at = "open"
    /\ cache' = cache \cup {_cache_path(workers[p].name)}
    /\ workers' = [workers EXCEPT ![p].at = "write_bytes", ![p].writes = 1]
    /\ UNCHANGED <<netCount, fetched>>
    /\ RaceUnchanged

\* _download, lines 30-32: the bytes are written and _download returns.
WorkerWrites(p) ==
    /\ workers[p].at = "write_bytes"
    /\ workers' = [workers EXCEPT ![p].at = "returned"]
    /\ UNCHANGED <<cache, netCount, fetched>>
    /\ RaceUnchanged

NextRace ==
    \E p \in Builds :
        \/ WorkerExists(p)
        \/ WorkerReads(p)
        \/ WorkerAttemptFails(p)
        \/ WorkerOpens(p)
        \/ WorkerWrites(p)

SpecRace == InitRace /\ [][NextRace]_vars

\* The fetch layer under the scheduling the code guarantees: an attempt of
\* _download ends (urlopen has a timeout, time.sleep returns), so a running
\* download takes its next step.
SpecFetchFair == SpecFetch /\ WF_vars(DownloadSucceeds \/ DownloadFails)

\* ---------------------------------------------------------------- claims

\* The character maps of the subsets produced for the scripts before
\* position k of the enabled list.
EarlierCmaps(k) ==
    UNION {cmaps[enabled[j].name] :
            j \in {j \in 1..(k - 1) : enabled[j].name \in DOMAIN cmaps}}

\* The script loop has finished with position k of the enabled list.
Processed(k) ==
    \/ pc = "subset" /\ k < i
    \/ \E n \in 1..Len(stages) : stages[n] = "subset_symbols"

\* C1: every script that is subset is handed exactly its resolved code
\* points minus the character maps of the subsets produced before it in the
\* same build, and a script is handed nothing only when that difference is
\* empty.
C1_RequestIsResolvedMinusCovered ==
    \A k \in 1..Len(enabled) :
        LET name == enabled[k].name
            rest == _resolve_codepoints(enabled[k]) \ EarlierCmaps(k)
        IN  /\ name \in DOMAIN requested => requested[name] = rest
            /\ Processed(k) => (name \in DOMAIN requested <=> rest # {})

\* A's character map is {1,2,3}, B resolves to {2,3,4} and is handed {4}.
C1_Witness ==
    /\ Len(enabled) = 2
    /\ S_latin \in DOMAIN cmaps
    /\ cmaps[S_latin] = {1, 2, 3}
    /\ _resolve_codepoints(enabled[2]) = {2, 3, 4}
    /\ S_cjk_sc \in DOMAIN requested
    /\ requested[S_cjk_sc] = {4}

\* C2: the covered set is the union of the character maps of the subsets
\* produced so far, and a code point requested from an earlier script whose
\* subset lacks it, and which no earlier subset has, is requested from a
\* later script that resolves to it.
C2_CoveredIsActualCmaps ==
    /\ covered_cps = UNION {cmaps[n] : n \in DOMAIN cmaps}
    /\ \A k \in 1..Len(enabled), m \in 1..Len(enabled) :
        (k < m /\ Processed(m) /\ enabled[k].name \in DOMAIN requested) =>
            \A cp \in requested[enabled[k].name] \cap _resolve_codepoints(enabled[m]) :
                cp \notin EarlierCmaps(m) =>
                    /\ enabled[m].name \in DOMAIN requested
                    /\ cp \in requested[enabled[m].name]

\* A code point the first script asked for and did not get is asked of the
\* second script.
C2_Witness ==
    /\ S_latin \in DOMAIN cmaps
    /\ S_cjk_sc \in DOMAIN requested
    /\ \E cp \in requested[S_latin] :
        cp \notin cmaps[S_latin] /\ cp \in requested[S_cjk_sc]

\* C3: an ensure_* call for a name whose file is in the cache returns
\* without a download being started and without a network request, whatever
\* URL the call resolves to.
C3_CacheHitNoRequest ==
    call.hit =>
        /\ call.status = "returned"
        /\ netCount = call.net0
        /\ pc # "download"
        /\ dl = NoDl

\* ensure_url_font hits a file that was downloaded from another URL.
C3_Witness ==
    /\ call.fn = "ensure_url_font"
    /\ call.hit
    /\ \E f \in fetched : f[2] = call.name /\ f[1] # call.url

\* What each state of a download satisfies: never more than 3 attempts; a
\* call that returned after a miss left the file in the cache and raised
\* nothing; a call that raised made exactly 3 requests and left no file.
C4_Attempts ==
    /\ dl.attempt <= 3
    /\ call.status = "running" => netCount - call.net0 = dl.attempt - 1
    /\ (call.status = "returned" /\ ~call.hit) =>
        /\ netCount - call.net0 \in 1..3
        /\ call.name \in cache
        /\ err = None
    /\ call.status = "raised" =>
        /\ netCount - call.net0 = 3
        /\ call.name \notin cache
        /\ pc = "aborted"
        /\ dl = NoDl

\* C4: a download makes at most 3 attempts and ends: the third attempt
\* succeeding leaves the file in the cache without an error, three failures
\* raise the fatal error with no fourth attempt and no cache file.
C4_BoundedRetries == []C4_Attempts /\ ((pc = "download") ~> (pc # "download"))

\* Two failed attempts and a third that succeeds.
C4_Witness ==
    /\ call.status = "returned"
    /\ ~call.hit
    /\ netCount - call.net0 = 3
    /\ call.name \in cache
    /\ err = None

FatalErrors ==
    {"RuntimeError: no scripts enabled", "RuntimeError: all subsets empty",
     "RuntimeError: download", "ValueError"}

\* C5: a build that ends with one of the fatal errors (no enabled scripts,
\* all subsets empty, download retries exhausted, malformed manifest) has
\* written no file to the output directory.
C5_FatalAbortWritesNothing ==
    (pc = "aborted" /\ err \in FatalErrors) => wrote = {}

\* The second weight's font download is exhausted after the first weight's
\* output was written.
C5_Witness ==
    /\ pc = "aborted"
    /\ err = "RuntimeError: download"
    /\ call.status = "raised"
    /\ weightIdx = 2
    /\ outFiles # {}

\* C6: once build() has created its work directory, the directory is gone
\* when build() has returned or raised.
C6_WorkDirRemovedOnEveryExit ==
    (pc \in {"aborted", "done", "next_weight"} /\ work_dir # 0) =>
        work_dir \notin workDirs

\* C7: no step of a dry run issues a network request or changes the cache
\* directory, the output directory or the temporary directories.
C7_DryRunNoSideEffects ==
    [][mode' = "dry_run" =>
        /\ netCount' = netCount
        /\ cache' = cache
        /\ outFiles' = outFiles
        /\ workDirs' = workDirs]_vars

\* The <<kind, name>> entries of a list of subset files.
MergeOrderOf(paths) == [k \in 1..Len(paths) |-> <<paths[k].kind, paths[k].name>>]

\* C8: the list build() passes to merge_fonts is the merge order dry_run
\* reports for the same configuration, and build()'s enabled list and code
\* point counts are the ones dry_run reports.
C8_DryRunEqualsBuild ==
    mergeArg # <<>> =>
        /\ MergeOrderOf(mergeArg[1]) = DryRunMergeOrder(cfg)
        /\ enabled = SelectSeq(cfg.scripts, LAMBDA s : s.enabled)

DeclaredFonts == <<F_latin, F_cjk_sc>>

\* C9: build_all leaves the caller's configuration as it was (style, output
\* name, source font names), and each weight's configuration is the base
\* one with that weight's style, output name and "Regular" replaced in the
\* base font names.
C9_WeightIsolation ==
    /\ config.style = BaseStyle
    /\ config.output = BaseOutput
    /\ \A k \in 1..Len(config.scripts) : config.scripts[k].noto_font = DeclaredFonts[k]
    /\ weightIdx >= 1 =>
        LET weight == config.weights[weightIdx]
        IN  /\ cfg.style = weight
            /\ cfg.output = <<BaseName, "-", weight, ".otf">>
            /\ \A k \in 1..Len(cfg.scripts) :
                /\ cfg.scripts[k].noto_font = ReplaceRegular(DeclaredFonts[k], weight)
                /\ cfg.scripts[k].enabled = config.scripts[k].enabled
                /\ cfg.scripts[k].name = config.scripts[k].name

\* The second weight is being built after the first one finished.
C9_Witness ==
    /\ weightIdx = 2
    /\ pc = "merge"
    /\ cfg.scripts[1].noto_font = <<"NotoSans-", "Light", ".otf">>

\* name is needed itself, or needed followed by "-" and any suffix.
ExactOrPrefixWithSeparator(name, r) ==
    \/ name = r
    \/ \E suffix \in Strings(Alphabet, 0, MaxNameLen) : name = r \o <<"-">> \o suffix

\* C10: after enable_scripts_for(config, R) a declared script is enabled
\* exactly when some r in R is its name or is followed in its name by "-",
\* whatever its flag was before.
C10_EnabledIffRule ==
    pc = "enabled" =>
        \A k \in 1..Len(config.scripts) :
            config.scripts[k].enabled <=>
                \E r \in needed : ExactOrPrefixWithSeparator(config.scripts[k].name, r)

\* A script enabled through the prefix rule beside one that matches no
\* required identifier.
C10_Witness ==
    /\ pc = "enabled"
    /\ needed = {<<"a">>}
    /\ config.scripts[1].name = <<"a", "-", "a">>
    /\ config.scripts[1].enabled
    /\ config.scripts[2].name = <<"-">>
    /\ ~config.scripts[2].enabled

\* C11: of two builds that ask for the same font name side by side, at most
\* one starts a download and at most one writes the cache file, and neither
\* takes a cache file that is still being written for present.
C11_NoRaceOnSameName ==
    \A p \in DOMAIN workers, q \in DOMAIN workers :
        (p # q /\ workers[p].name = workers[q].name) =>
            /\ workers[p].downloads + workers[q].downloads <= 1
            /\ workers[p].writes + workers[q].writes <= 1
            /\ ~workers[p].saw_partial

\* C12: a build whose validation has run has raised "nothing to build"
\* exactly when no script of its configuration is enabled after the
\* manifest was applied, and at that point no ensure_* call was made, no
\* temporary directory was created and nothing was handed to subset_font.
C12_NothingToBuildIffNoneEnabled ==
    /\ (stages # <<>> /\ \A k \in 1..Len(cfg.scripts) : ~cfg.scripts[k].enabled) =>
            /\ pc = "aborted"
            /\ err = "RuntimeError: no scripts enabled"
    /\ err = "RuntimeError: no scripts enabled" =>
            /\ pc = "aborted"
            /\ \A k \in 1..Len(cfg.scripts) : ~cfg.scripts[k].enabled
            /\ stages = <<"validate">>
            /\ call = NoCall
            /\ font_paths = <<>>
            /\ mkdtemps = 0
            /\ workDirs = {}
            /\ requested = <<>>
            /\ srcs = <<>>

\* Scripts that were declared enabled are all disabled by a manifest of
\* unknown codes, and the build of the first weight raises.
C12_Witness ==
    /\ err = "RuntimeError: no scripts enabled"
    /\ config.languages_url # <<>>
    /\ config.weights # <<>>
    /\ lang_codes_of(data) = <<"xx">>

\* The running step is the script loop's iteration for a script whose
\* subset_font call fails.
SubsetFails ==
    /\ pc = "subset"
    /\ enabled[i].name \notin DOMAIN requested
    /\ enabled[i].name \in DOMAIN requested'
    /\ enabled[i].name \notin DOMAIN cmaps'

\* C13: an iteration whose subset_font call fails raises nothing, leaves
\* covered_cps and subset_paths as they were and goes on to the next script
\* (or to the symbols after the last one); and the build raises "all subsets
\* empty" exactly when the loops have ended with no subset produced.
C13_SubsetFailureIsSkipped ==
    /\ [][SubsetFails =>
            /\ covered_cps' = covered_cps
            /\ subset_paths' = subset_paths
            /\ cmaps' = cmaps
            /\ err' = err
            /\ IF i < Len(enabled)
               THEN pc' = "subset" /\ i' = i + 1
               ELSE pc' = "subset_symbols"]_vars
    /\ [](err = "RuntimeError: all subsets empty" =>
            /\ pc = "aborted"
            /\ subset_paths = <<>>
            /\ cmaps = <<>>)
    /\ [](pc \in {"merge", "prune", "rename", "fix_metrics", "subroutinize", "cleanup"} =>
            subset_paths # <<>>)

\* The first script's subset failed, the second one's was produced, and the
\* build has gone on to the merge.
C13_Witness ==
    /\ pc = "merge"
    /\ S_latin \in DOMAIN requested
    /\ S_latin \notin DOMAIN cmaps
    /\ S_cjk_sc \in DOMAIN cmaps
    /\ Len(subset_paths) = 1

\* The running step is the script loop's iteration for a script whose
\* filtered request set is empty.
RequestIsEmpty ==
    /\ pc = "subset"
    /\ FilterCovered(_resolve_codepoints(enabled[i]), covered_cps) = {}

\* C14: an iteration for a script whose filtered request set is empty does
\* not call subset_font, adds no subset file, leaves covered_cps as it was,
\* raises nothing and goes on to the next script (or to the symbols).
C14_EmptyRequestIsSkipped ==
    [][RequestIsEmpty =>
        /\ requested' = requested
        /\ srcs' = srcs
        /\ subset_paths' = subset_paths
        /\ covered_cps' = covered_cps
        /\ cmaps' = cmaps
        /\ err' = err
        /\ IF i < Len(enabled)
           THEN pc' = "subset" /\ i' = i + 1
           ELSE pc' = "subset_symbols"]_vars

\* The second script was skipped because the first one's subset covers all
\* it resolves to, and the build has gone on to the merge.
C14_Witness ==
    /\ pc = "merge"
    /\ Len(enabled) = 2
    /\ S_latin \in DOMAIN cmaps
    /\ _resolve_codepoints(enabled[2]) # {}
    /\ _resolve_codepoints(enabled[2]) \subseteq cmaps[S_latin]
    /\ S_cjk_sc \notin DOMAIN requested
    /\ mergeArg = <<>>
    /\ Len(subset_paths) = 1

\* name is n, or n followed by "-" and anything.
IsOrExtends(name, n) ==
    \/ name = n
    \/ /\ Len(name) > Len(n)
       /\ \A k \in 1..Len(n) : name[k] = n[k]
       /\ name[Len(n) + 1] = "-"

\* A manifest of a recognized shape has been applied.
Applied == data.shape \in {"dict", "list"}

C16_ManifestShape ==
    /\ [](data.shape = "dict" =>
            needed = UNION {LANG_TO_SCRIPTS(c) :
                        c \in {data.content[k][2] : k \in 1..Len(data.content)}
                               \cap LangCodes})
    /\ [](data.shape = "list" =>
            needed = UNION {LANG_TO_SCRIPTS(c) : c \in Range(data.content) \cap LangCodes})
    /\ [](data.shape \notin {None, "dict", "list"} =>
            /\ pc = "aborted"
            /\ err = "ValueError"
            /\ needed = {}
            /\ stages = <<>>
            /\ call = NoCall
            /\ mkdtemps = 0
            /\ requested = <<>>
            /\ mergeArg = <<>>
            /\ outFiles = {}
            /\ report = <<>>)
    /\ [][data'.shape \notin {None, "dict", "list"} =>
            /\ data = NoData
            /\ config' = config
            /\ cfg' = cfg]_vars

\* A dry run downloaded the manifest and it is neither a mapping nor a list.
C16_Witness ==
    /\ mode = "dry_run"
    /\ err = "ValueError"
    /\ data.shape = "str"
    /\ netCount > 0
    /\ LanguagesFile \in cache

\* C17: a dry run that has raised has raised the manifest's ValueError.
C17_DryRunAbortsOnlyOnBadManifest ==
    (mode = "dry_run" /\ pc = "aborted") => err = "ValueError"

\* The position of a stage in one pass of build().
Rank(stage) ==
    CASE stage = "validate" -> 1
      [] stage = "fetch" -> 2
      [] stage = "fetch_symbols" -> 3
      [] stage = "mkdtemp" -> 4
      [] stage = "subset" -> 5
      [] stage = "subset_symbols" -> 6
      [] stage = "check" -> 7
      [] stage = "merge" -> 8
      [] stage = "prune" -> 9
      [] stage = "rename" -> 10
      [] stage = "fix_metrics" -> 11
      [] stage = "subroutinize" -> 12
      [] stage = "cleanup" -> 13

\* The stages the claim names, in its order; the feature prune only with a
\* keep list.
StagesOfASuccessfulBuild(c) ==
    <<"fetch", "fetch_symbols", "subset", "subset_symbols", "merge">>
    \o (IF c.merge.keep_features # <<>> THEN <<"prune">> ELSE <<>>)
    \o <<"rename", "fix_metrics", "subroutinize">>

\* C18: the stages a build has entered are in pass order with none entered
\* twice, and a build that reached its end entered fetch, script subsetting,
\* symbol subsetting, merge, feature prune (exactly when a keep list is
\* configured), rename, metric fix and re-encode, in that order and once
\* each.
C18_OnePassInOrder ==
    /\ \A a \in 1..Len(stages), b \in 1..Len(stages) :
            a < b => Rank(stages[a]) < Rank(stages[b])
    /\ (stages # <<>> /\ stages[Len(stages)] = "cleanup") =>
            /\ SelectSeq(stages, LAMBDA st : st \in Range(StagesOfASuccessfulBuild(cfg)) \cup {"prune"})
                    = StagesOfASuccessfulBuild(cfg)
            /\ Cardinality({n \in 1..Len(stages) : stages[n] = "fix_metrics"}) = 1

\* A build with a keep list has finished, having pruned.
C18_Witness ==
    /\ pc = "done"
    /\ err = None
    /\ cfg.merge.keep_features # <<>>
    /\ Len(stages) = 13
    /\ stages[9] = "prune"
    /\ stages[11] = "fix_metrics"

\* The font files that carry a variation axis table.
VariableFonts == {F_latin_vf}

\* The running build targets a weight with a configured axis value.
HasAxisValue(c) ==
    \E k \in 1..Len(c.weight_values) : c.weight_values[k][1] = c.style

\* C19: the file handed to subset_font for a script is the fetched source
\* itself unless that source is a variable font and the build's weight has
\* an axis value, and then it is a derived file, not the cached source.
C19_VariableSourceIsInstanced ==
    \A n \in DOMAIN srcs :
        IF font_paths[n] \in VariableFonts /\ HasAxisValue(cfg)
        THEN srcs[n] # font_paths[n]
        ELSE srcs[n] = font_paths[n]

\* A fetch stage that was left by an exception.
FetchRaised ==
    /\ pc = "aborted"
    /\ stages # <<>>
    /\ stages[Len(stages)] \in {"fetch", "fetch_symbols"}

\* C20: the fetch stage of a build with an enabled script is left by an
\* exception only when a download is exhausted, and once it is over every
\* enabled script has a path that exists in the cache and, with symbols
\* enabled, so has every declared symbol font.
C20_FetchResolvesEveryFont ==
    /\ FetchRaised => err = "RuntimeError: download"
    /\ (\E n \in 1..Len(stages) : stages[n] = "mkdtemp") =>
            /\ \A k \in 1..Len(enabled) :
                /\ enabled[k].name \in DOMAIN font_paths
                /\ Exists(cache, font_paths[enabled[k].name])
            /\ cfg.symbols.enabled =>
                /\ Len(symbol_paths) = Len(cfg.symbols.fonts)
                /\ \A k \in 1..Len(symbol_paths) : Exists(cache, symbol_paths[k])

\* The cache paths build() has resolved in its fetch stage.
ResolvedByBuild ==
    {font_paths[n] : n \in DOMAIN font_paths}
    \cup {symbol_paths[k] : k \in 1..Len(symbol_paths)}

\* The fetch stage of the running build is over.
FetchIsOver == \E n \in 1..Len(stages) : stages[n] = "mkdtemp"

\* C21: once the fetch stage of a build is over, the cache paths it resolved
\* are exactly those of get_download_plan for the same configuration, and
\* every ensure_font call a build makes is for a name, URL and cache path
\* that are an entry of the plan.
C21_PlanIsWhatBuildFetches ==
    /\ [](FetchIsOver =>
            LET plan == get_download_plan(cfg)
            IN  {plan[k][3] : k \in 1..Len(plan)} = ResolvedByBuild)
    /\ [][(mode = "build_all" /\ call' # call /\ call'.fn = "ensure_font" /\ pc = "fetch") =>
            LET plan == get_download_plan(cfg)
            IN  \E k \in 1..Len(plan) :
                    plan[k] = <<call'.name, call'.url, _cache_path(call'.name)>>]_vars

\* The subset files of the enabled scripts whose subset was produced, in
\* the order of the enabled list.
ProducedScriptSubsets ==
    LET produced == SelectSeq(enabled, LAMBDA sc : sc.name \in DOMAIN cmaps)
    IN  [k \in 1..Len(produced) |-> SubsetPath(work_dir, "script", produced[k].name)]

\* The positions of the symbol subsets in a list of subset files.
SymbolPositions(paths) == {k \in 1..Len(paths) : paths[k].kind = "symbols"}

BeforeSubsetting ==
    \/ pc \in {"fetch", "fetch_symbols", "mkdtemp"}
    \/ pc = "download" /\ dl.caller = "build"
    \/ pc = "subset" /\ i = 1

\* C23: covered_cps is empty in every build until its script loop has
\* handled a script, whatever earlier builds covered; a step of the script
\* loop removes nothing from it; and no other step of a build changes it.
C23_CoveredIsPerBuild ==
    /\ [](BeforeSubsetting => covered_cps = {})
    /\ [][pc = "subset" => covered_cps \subseteq covered_cps']_vars
    /\ [][pc \notin {"subset", "validate", "mkdtemp"} => covered_cps' = covered_cps]_vars

\* The second weight's build is about to subset its first script after the
\* first weight's build covered code points and finished.
C23_Witness ==
    /\ weightIdx = 2
    /\ pc = "subset"
    /\ i = 1
    /\ covered_cps = {}
    /\ outFiles = {<<BaseName, "-", "Bold", ".otf">>}
    /\ requested = <<>>

\* C24: the character maps of the script subsets of one build are pairwise
\* disjoint (subset_font returns a subset of the request), and a code point
\* in the map of a script was asked of every earlier script that resolves
\* to it and is in none of their maps.
C24_CmapsDisjoint ==
    /\ \A n \in DOMAIN cmaps : cmaps[n] \subseteq requested[n]
    /\ \A n \in DOMAIN cmaps, m \in DOMAIN cmaps :
            n # m => cmaps[n] \cap cmaps[m] = {}
    /\ \A k \in 1..Len(enabled) :
            enabled[k].name \in DOMAIN cmaps =>
                \A cp \in cmaps[enabled[k].name], j \in 1..(k - 1) :
                    cp \in _resolve_codepoints(enabled[j]) =>
                        /\ enabled[j].name \in DOMAIN requested
                        /\ cp \in requested[enabled[j].name]
                        /\ enabled[j].name \in DOMAIN cmaps =>
                                cp \notin cmaps[enabled[j].name]

\* Both scripts resolve to a code point the first font lacks: it is in the
\* second script's map only, beside a code point the first font has.
C24_Witness ==
    /\ Len(enabled) = 2
    /\ S_latin \in DOMAIN cmaps
    /\ S_cjk_sc \in DOMAIN cmaps
    /\ \E cp \in cmaps[S_cjk_sc] :
            /\ cp \in _resolve_codepoints(enabled[1])
            /\ cp \notin cmaps[S_latin]
    /\ \E cp \in cmaps[S_latin] : cp \in _resolve_codepoints(enabled[2])

=============================================================================
